---- MODULE Spec2Model ----
(***************************************************************************)
(* The appliance wizard of gns3-gui (gns3/dialogs/appliance_wizard.py):    *)
(* reconciliation of an appliance's image manifest against the files found *)
(* in the image directories, the files page (refresh, import, validate),   *)
(* the server page and the install step.                                   *)
(*                                                                         *)
(* The UI thread and the scan worker are separate threads: _refreshVersions*)
(* blocks in ProgressDialog.exec_() while _resfreshDialogWorker writes the  *)
(* image statuses one image at a time, and files may appear or disappear   *)
(* on disk meanwhile.  The position of the handler (dialog) and of the     *)
(* worker (workers) is therefore state.                                    *)
(***************************************************************************)
EXTENDS Integers, Sequences, FiniteSets, TLC

VARIABLES
    fs,            \* files on disk: set of [dir, name, md5, size], one per (dir, name)
    status,        \* image["status"] of every image of the appliance ("Unknown": key not set)
    tree,          \* uiApplianceVersionTreeWidget: top-level items, as built by _refreshVersions
    current,       \* uiApplianceVersionTreeWidget.currentItem(): [v, i], NoItem when None
    workers,       \* running _resfreshDialogWorker threads: next position in ScanOrder of each
    dialog,        \* TRUE while a ProgressDialog of _refreshVersions is inside exec_()
    page,          \* "init" inside __init__, then the wizard's current page
    \* what the most recent handler of the UI thread did
    lastResult,    \* [page, result]: what validateCurrentPage returned or raised on which page
    lastMessage,   \* the QMessageBox it showed ("": none)
    importPath,    \* the file picked in the import's QFileDialog (NoFile: none)
    installFor,    \* the version index it entered _install for (0: none)
    importedFor,   \* the image whose copy it stored in the image store (0: none)
    \* the server page and what it reads
    platform, vmRunning, vmServer, localRunning, nRemotes,
    radio, vmEnabled, localEnabled, comboIndex, server,
    \* history of the reconciliations (recorded, never read by the program)
    located,       \* answer of the registry for each image when the worker last looked it up
    scanCompleted, \* the most recent reconciliation ran to completion
    everCompleted, \* some reconciliation ran to completion
    fsChanged,     \* the directories changed since the most recent reconciliation started
    prevTree,      \* tree before the most recent reconciliation cleared it
    prevStable,    \* the previous reconciliation completed and the directories did not change
                   \* from its start to the start of the most recent one
    \* a lookup applied on its own (RegistrySpec, QuerySpec)
    probe,         \* the arguments of the call
    answer         \* what it returned

filesVars == <<fs, status, tree, current, workers, dialog>>
outcomeVars == <<lastResult, lastMessage, importPath, installFor, importedFor>>
wizardVars == <<page, outcomeVars>>
envVars == <<platform, vmRunning, vmServer, localRunning, nRemotes>>
serverVars == <<radio, vmEnabled, localEnabled, comboIndex, server>>
histVars == <<located, scanCompleted, everCompleted, fsChanged, prevTree, prevStable>>
probeVars == <<probe, answer>>
vars == <<filesVars, wizardVars, envVars, serverVars, histVars, probeVars>>

----------------------------------------------------------------------------
(* Bounds of the model *)

\* files the environment may put on disk at the same time
MaxFiles == 2
\* files on disk when the registry lookup is applied on its own
MaxRegistryFiles == 2
\* worker threads the model can represent at once
MaxWorkers == 2
\* remote servers registered in the preferences
MaxRemotes == 2

----------------------------------------------------------------------------
(* The appliance and the directories *)

StoreDir == "images/QEMU"
ApplianceDir == "appliance_dir"
DownloadDir == "downloads"
OtherDir == "elsewhere"

\* the directories handed to Registry
images_directoriesNoDownloads == <<StoreDir, ApplianceDir>>

images_directories == <<StoreDir, ApplianceDir, DownloadDir>>

\* destination of Image.copy in _importPushButtonClickedSlot
import_directoryUnsearched == OtherDir

import_directory == StoreDir

\* the images declared by the appliance file (filename, md5sum, filesize)
ImageDefs ==
    << [filename |-> "disk.qcow2", md5sum |-> "abc123", filesize |-> 1000],
       [filename |-> "cfg.img",    md5sum |-> "def456", filesize |-> 50],
       [filename |-> "disk.qcow2", md5sum |-> "c0ffee", filesize |-> 2000] >>

\* self._appliance["versions"]: version "3.0" declares no image
Versions ==
    << [name |-> "1.0", images |-> <<1, 2>>],
       [name |-> "2.0", images |-> <<3>>],
       [name |-> "3.0", images |-> <<>>] >>

ImageIds == 1..Len(ImageDefs)
VersionIds == 1..Len(Versions)
VersionNames == {Versions[v].name : v \in VersionIds}

StatusValues == {"Unknown", "Available", "Missing file"}

NoItem == [v |-> 0, i |-> 0]
NoFile == [dir |-> "", name |-> "", md5 |-> "", size |-> 0]

File(d, n, m, s) == [dir |-> d, name |-> n, md5 |-> m, size |-> s]

\* files that can appear in the directories
FileUniverse ==
    { File(StoreDir,     "disk.qcow2", "abc123", 1000),   \* image 1, exact
      File(DownloadDir,  "disk.qcow2", "bad000", 1000),   \* right name and size, corrupted
      File(ApplianceDir, "cfg.img",    "def456", 50),     \* image 2, exact
      File(OtherDir,     "cfg.img",    "def456", 50),     \* image 2, outside the search path
      File(OtherDir,     "blob.bin",   "abc123", 999),    \* checksum of image 1, other name and size
      File(DownloadDir,  "disk.qcow2", "c0ffee", 2000) }  \* image 3, exact (same path as the corrupted one)

\* a directory holds one file per name
WellFormedFs(files) ==
    \A f, g \in files : (f.dir = g.dir /\ f.name = g.name) => f = g

\* writing file f replaces whatever was at its path
WriteFile(files, f) ==
    {g \in files : ~(g.dir = f.dir /\ g.name = f.name)} \cup {f}

RECURSIVE SeqSum(_)
SeqSum(s) == IF s = <<>> THEN 0 ELSE Head(s) + SeqSum(Tail(s))

RECURSIVE Flatten(_)
Flatten(ss) == IF ss = <<>> THEN <<>> ELSE Head(ss) \o Flatten(Tail(ss))

Range(s) == {s[k] : k \in DOMAIN s}

\* order in which _resfreshDialogWorker visits the images: versions, then images
ScanOrder == Flatten([v \in VersionIds |-> Versions[v].images])

----------------------------------------------------------------------------
(* Registry and Appliance: the lookups the wizard calls *)

\* Registry.search_image_file: a file in one of the search directories matches
\* the filename AND the checksum AND the size
search_image_file(files, filename, md5sum, filesize) ==
    \E f \in files :
        /\ f.dir \in Range(images_directories)
        /\ f.name = filename
        /\ f.md5 = md5sum
        /\ f.size = filesize

is_version_installableFalseWhenAbsent(st, name) ==
    IF name \notin VersionNames THEN "False"
    ELSE IF \A v \in VersionIds : Versions[v].name = name =>
                \A k \in DOMAIN Versions[v].images : st[Versions[v].images[k]] = "Available"
         THEN "True"
         ELSE "False"

\* Appliance.is_version_installable: VersionNotFound for a name the manifest
\* does not hold, Unknown before the images were reconciled, otherwise whether
\* every image of the version was located
is_version_installable(st, name) ==
    IF name \notin VersionNames THEN "VersionNotFound"
    ELSE LET v == CHOOSE x \in VersionIds : Versions[x].name = name
             imgs == Range(Versions[v].images)
         IN  IF \E i \in imgs : st[i] = "Unknown" THEN "Unknown"
             ELSE IF \A i \in imgs : st[i] = "Available" THEN "True"
             ELSE "False"

\* Python's `not x` on the answer of is_version_installable
Falsy(x) == x = "False"

----------------------------------------------------------------------------
(* _resfreshDialogWorker *)

\* the status the worker writes for image i, which carried status old
ScannedStatusSticky(files, i, old) ==
    IF old = "Available" \/ search_image_file(files, ImageDefs[i].filename,
                                              ImageDefs[i].md5sum, ImageDefs[i].filesize)
    THEN "Available"
    ELSE "Missing file"

ScannedStatus(files, i, old) ==
    IF search_image_file(files, ImageDefs[i].filename,
                         ImageDefs[i].md5sum, ImageDefs[i].filesize)
    THEN "Available"
    ELSE "Missing file"

\* one iteration of the worker's loops, by worker w
WorkerStep(w) ==
    /\ w \in DOMAIN workers
    /\ workers[w] <= Len(ScanOrder)
    /\ LET i == ScanOrder[workers[w]]
       IN  /\ status' = [status EXCEPT ![i] = ScannedStatus(fs, i, status[i])]
           /\ located' = [located EXCEPT ![i] =
                  search_image_file(fs, ImageDefs[i].filename,
                                    ImageDefs[i].md5sum, ImageDefs[i].filesize)]
    /\ workers' = [workers EXCEPT ![w] = @ + 1]
    /\ UNCHANGED <<fs, tree, current, dialog>>
    /\ UNCHANGED <<wizardVars, envVars, probeVars, serverVars>>
    /\ UNCHANGED <<scanCompleted, everCompleted, fsChanged, prevTree, prevStable>>

----------------------------------------------------------------------------
(* _refreshVersions *)

\* aggregate status of a version: "Available" until an image is "Missing file"
VersionStatusLast(st, imgs) ==
    IF imgs = <<>> THEN "Available"
    ELSE IF st[imgs[Len(imgs)]] = "Missing file" THEN "Missing files" ELSE "Available"

RECURSIVE VersionStatus(_, _)
VersionStatus(st, imgs) ==
    IF imgs = <<>> THEN "Available"
    ELSE IF st[Head(imgs)] = "Missing file" THEN "Missing files"
    ELSE VersionStatus(st, Tail(imgs))

\* size += image["filesize"]
VersionSize(imgs) == SeqSum([k \in DOMAIN imgs |-> ImageDefs[imgs[k]].filesize])

\* the top-level item built for version v, with one child per image
VersionItem(st, v) ==
    [version  |-> v,
     size     |-> VersionSize(Versions[v].images),
     status   |-> VersionStatus(st, Versions[v].images),
     children |-> [k \in DOMAIN Versions[v].images |->
                      [image  |-> Versions[v].images[k],
                       status |-> st[Versions[v].images[k]]]]]

BuildItems(st) == [v \in VersionIds |-> VersionItem(st, v)]

\* uiApplianceVersionTreeWidget.clear()
ClearedTreeKept(t) == t

ClearedTree(t) == <<>>

\* the tree once exec_() has returned: filled only when the dialog was accepted
ShownTreeAlways(accepted, t, st) == t \o BuildItems(st)

ShownTree(accepted, t, st) == IF accepted THEN t \o BuildItems(st) ELSE t

\* the UI thread is inside the modal ProgressDialog.exec_()
UiBlockedNever == FALSE

UiBlocked == dialog

RemoveAt(s, k) == [j \in 1..(Len(s) - 1) |-> IF j < k THEN s[j] ELSE s[j + 1]]

\* ProgressDialog and WaitForLambdaWorker: the dialog is accepted by the
\* worker's finished signal, so only once the worker has run to its end
DialogMayReturn(w, accepted) == accepted => workers[w] = Len(ScanOrder) + 1

\* the worker thread ends with the dialog: a scan whose dialog is closed early
\* is aborted between two images
WorkersAfterReturn(w) == RemoveAt(workers, w)

\* _refreshVersions up to exec_(): the tree is cleared, the worker started
\* (copied: the calling handler has just written a file into the image store)
RefreshStart(copied) ==
    /\ Len(workers) < MaxWorkers
    /\ tree' = ClearedTree(tree)
    /\ current' = IF tree' = <<>> THEN NoItem ELSE current
    /\ workers' = Append(workers, 1)
    /\ dialog' = TRUE
    /\ prevTree' = tree
    /\ prevStable' = (scanCompleted /\ ~fsChanged /\ ~copied)
    /\ fsChanged' = FALSE
    /\ scanCompleted' = FALSE
    /\ UNCHANGED <<status, located, everCompleted>>

\* exec_() returns: accepted when worker w has finished, rejected when the
\* dialog is closed first (the scan is then aborted)
RefreshReturn(w, accepted) ==
    /\ dialog
    /\ w \in DOMAIN workers
    /\ DialogMayReturn(w, accepted)
    /\ workers' = WorkersAfterReturn(w)
    /\ dialog' = FALSE
    /\ tree' = ShownTree(accepted, tree, status)
    /\ current' = IF accepted /\ tree' # <<>> THEN [v |-> tree'[1].version, i |-> 0]
                  ELSE current
    /\ scanCompleted' = accepted
    /\ everCompleted' = (everCompleted \/ accepted)
    /\ page' = IF page = "init" THEN "info" ELSE page
    /\ UNCHANGED <<fs, status, outcomeVars, envVars, probeVars, serverVars>>
    /\ UNCHANGED <<located, fsChanged, prevTree, prevStable>>

----------------------------------------------------------------------------
(* The files page *)

\* what the handler that runs did
NoResult == [page |-> "none", result |-> "none"]

OutcomeOf(result, message, path, version, image) ==
    /\ lastResult' = IF result = "none" THEN NoResult ELSE [page |-> page, result |-> result]
    /\ lastMessage' = message
    /\ importPath' = path
    /\ installFor' = version
    /\ importedFor' = image

Outcome(result, message, path, version) == OutcomeOf(result, message, path, version, 0)

\* the call of _refreshVersions in __init__
Construct ==
    /\ page = "init"
    /\ ~UiBlocked
    /\ RefreshStart(FALSE)
    /\ UNCHANGED <<fs, wizardVars, envVars, probeVars, serverVars>>

\* uiRefreshPushButton.clicked
RefreshClicked ==
    /\ page = "files"
    /\ ~UiBlocked
    /\ RefreshStart(FALSE)
    /\ Outcome("none", "", NoFile, 0)
    /\ UNCHANGED <<fs, page, envVars, probeVars, serverVars>>

TreeItems(t) ==
    {[v |-> t[k].version, i |-> 0] : k \in DOMAIN t}
    \cup UNION {{[v |-> t[k].version, i |-> t[k].children[j].image] :
                    j \in DOMAIN t[k].children} : k \in DOMAIN t}

\* the user selects another item of the tree
SelectItem(it) ==
    /\ page = "files"
    /\ ~UiBlocked
    /\ it \in TreeItems(tree)
    /\ it # current
    /\ current' = it
    /\ Outcome("none", "", NoFile, 0)
    /\ UNCHANGED <<fs, status, tree, workers, dialog>>
    /\ UNCHANGED <<page, envVars, probeVars, serverVars, histVars>>

\* _applianceVersionCurrentItemChangedSlot: the import button shows for an image item
ImportButtonVisible == current # NoItem /\ current.i # 0

\* the comparison that admits a candidate file for the selected image
AcceptsImportByName(candidate, disk) == candidate.name = disk.filename

AcceptsImport(candidate, disk) == candidate.md5 = disk.md5sum

\* _importPushButtonClickedSlot: path is the file picked in the dialog (NoFile:
\* dialog cancelled), copy_ok whether Image.copy succeeds
_importPushButtonClickedSlot(path, copy_ok) ==
    /\ page = "files"
    /\ ~UiBlocked
    /\ ImportButtonVisible
    /\ path \in fs \cup {NoFile}
    /\ LET disk == ImageDefs[current.i]
       IN  IF path = NoFile
           THEN /\ Outcome("none", "", path, 0)
                /\ UNCHANGED <<filesVars, histVars>>
           ELSE IF ~AcceptsImport(path, disk)
           THEN /\ Outcome("none", "This is not the correct image file.", path, 0)
                /\ UNCHANGED <<filesVars, histVars>>
           ELSE IF ~copy_ok
           THEN /\ Outcome("none", "", path, 0)
                /\ UNCHANGED <<filesVars, histVars>>
           ELSE /\ OutcomeOf("none", "", path, 0, current.i)
                /\ fs' = WriteFile(fs, File(import_directory, disk.filename,
                                            path.md5, path.size))
                /\ RefreshStart(fs' # fs)
    /\ UNCHANGED <<page, envVars, probeVars, serverVars>>

----------------------------------------------------------------------------
(* The directories change under the wizard *)

FsAdd(f) ==
    /\ f \in FileUniverse
    /\ WriteFile(fs, f) # fs
    /\ Cardinality(WriteFile(fs, f)) <= MaxFiles
    /\ fs' = WriteFile(fs, f)
    /\ fsChanged' = TRUE
    /\ UNCHANGED <<status, tree, current, workers, dialog>>
    /\ UNCHANGED <<wizardVars, envVars, probeVars, serverVars>>
    /\ UNCHANGED <<located, scanCompleted, everCompleted, prevTree, prevStable>>

FsRemove(f) ==
    /\ f \in fs
    /\ fs' = fs \ {f}
    /\ fsChanged' = TRUE
    /\ UNCHANGED <<status, tree, current, workers, dialog>>
    /\ UNCHANGED <<wizardVars, envVars, probeVars, serverVars>>
    /\ UNCHANGED <<located, scanCompleted, everCompleted, prevTree, prevStable>>

----------------------------------------------------------------------------
(* The server page *)

Platforms == {"linux", "darwin", "win32"}

\* sys.platform.startswith("darwin") or sys.platform.startswith("win")
IsMacOrWindows(p) == p \in {"darwin", "win32"}

NoServer == [kind |-> "unset", id |-> 0]
LocalServer == [kind |-> "local", id |-> 0]
VMServer == [kind |-> "vm", id |-> 0]
NoneServer == [kind |-> "None", id |-> 0]
RemoteServer(k) == [kind |-> "remote", id |-> k]

\* uiRemoteServersComboBox.itemData(index); index 0 stands for Qt's -1 (no item)
ComboItemData(index) == IF index \in 1..nRemotes THEN RemoteServer(index) ELSE NoneServer

\* the radio button initializePage checks.  The buttons are exclusive: checking
\* one unchecks the others.  setChecked(False) on the remote button either
\* unchecks it or, being the checked button of an exclusive group, is ignored.
InitialRadioNoPlatformTest(old) ==
    IF vmRunning THEN {"vm"}
    ELSE IF localRunning THEN {"local"}
    ELSE IF nRemotes > 0 THEN {"remote"}
    ELSE IF old = "remote" THEN {"remote", "none"}
    ELSE {old}

InitialRadio(old) ==
    IF vmRunning THEN {"vm"}
    ELSE IF localRunning /\ IsMacOrWindows(platform) THEN {"local"}
    ELSE IF nRemotes > 0 THEN {"remote"}
    ELSE IF old = "remote" THEN {"remote", "none"}
    ELSE {old}

\* initializePage(uiServerWizardPage)
InitializeServerPage ==
    /\ comboIndex' = IF nRemotes > 0 THEN 1 ELSE 0
    /\ vmEnabled' = IF ~vmRunning THEN FALSE ELSE vmEnabled
    /\ localEnabled' = IF IsMacOrWindows(platform) THEN FALSE ELSE localEnabled
    /\ radio' \in InitialRadio(radio)
    /\ UNCHANGED server

RadioEnabled(r) ==
    CASE r = "remote" -> TRUE
      [] r = "vm"     -> vmEnabled
      [] r = "local"  -> localEnabled

\* the user clicks an enabled radio button
ClickRadio(r) ==
    /\ page = "server"
    /\ ~UiBlocked
    /\ r \in {"remote", "vm", "local"}
    /\ RadioEnabled(r)
    /\ r # radio
    /\ radio' = r
    /\ Outcome("none", "", NoFile, 0)
    /\ UNCHANGED <<vmEnabled, localEnabled, comboIndex, server>>
    /\ UNCHANGED <<filesVars, page, envVars, probeVars, histVars>>

\* the user picks a remote server in the combo box
SelectCombo(k) ==
    /\ page = "server"
    /\ ~UiBlocked
    /\ k \in 1..nRemotes
    /\ k # comboIndex
    /\ comboIndex' = k
    /\ Outcome("none", "", NoFile, 0)
    /\ UNCHANGED <<radio, vmEnabled, localEnabled, server>>
    /\ UNCHANGED <<filesVars, page, envVars, probeVars, histVars>>

\* the GNS3 VM starts or stops, its server appears or goes away
VMChanges(running, srv) ==
    /\ <<running, srv>> # <<vmRunning, vmServer>>
    /\ vmRunning' = running
    /\ vmServer' = srv
    /\ UNCHANGED <<platform, localRunning, nRemotes>>
    /\ UNCHANGED <<filesVars, wizardVars, serverVars, histVars, probeVars>>

\* validateCurrentPage on the server page: [result, server, message]
ValidateServerPageNoVMCheck ==
    IF radio = "remote"
    THEN IF nRemotes = 0
         THEN [result |-> "False", server |-> server,
               message |-> "There is no remote server registered in your preferences"]
         ELSE [result |-> "True", server |-> ComboItemData(comboIndex), message |-> ""]
    ELSE IF radio = "vm"
    THEN [result |-> "True", server |-> IF vmServer THEN VMServer ELSE NoneServer,
          message |-> ""]
    ELSE [result |-> "True", server |-> LocalServer, message |-> ""]

ValidateServerPage ==
    IF radio = "remote"
    THEN IF nRemotes = 0
         THEN [result |-> "False", server |-> server,
               message |-> "There is no remote server registered in your preferences"]
         ELSE [result |-> "True", server |-> ComboItemData(comboIndex), message |-> ""]
    ELSE IF radio = "vm"
    THEN IF ~vmServer
         THEN [result |-> "False", server |-> server, message |-> "The GNS3 VM is not running"]
         ELSE [result |-> "True", server |-> VMServer, message |-> ""]
    ELSE [result |-> "True", server |-> LocalServer, message |-> ""]

----------------------------------------------------------------------------
(* The wizard: Next runs validateCurrentPage, then initializePage of the next page *)

\* Next on the info page (validateCurrentPage returns True), then
\* initializePage(uiServerWizardPage)
NextInfo ==
    /\ page = "info"
    /\ ~UiBlocked
    /\ page' = "server"
    /\ Outcome("True", "", NoFile, 0)
    /\ InitializeServerPage
    /\ UNCHANGED <<filesVars, envVars, probeVars, histVars>>

\* Next on the server page, then initializePage(uiFilesWizardPage) = _refreshVersions
NextServer ==
    /\ page = "server"
    /\ ~UiBlocked
    /\ LET r == ValidateServerPage
       IN  /\ Outcome(r.result, r.message, NoFile, 0)
           /\ server' = r.server
           /\ IF r.result = "True"
              THEN /\ page' = "files"
                   /\ RefreshStart(FALSE)
                   /\ UNCHANGED fs
              ELSE UNCHANGED <<page, filesVars, histVars>>
    /\ UNCHANGED <<radio, vmEnabled, localEnabled, comboIndex, envVars, probeVars>>

\* validateCurrentPage on the files page, the user answering `reply` to the
\* question: [result, message]
ValidateFilesPageNoCheck(reply) ==
    IF current = NoItem
    THEN [result |-> "AttributeError", message |-> ""]
    ELSE IF reply = "No"
         THEN [result |-> "False", message |-> "Would you like to install?"]
         ELSE [result |-> "True", message |-> "Would you like to install?"]

ValidateFilesPage(reply) ==
    IF current = NoItem
    THEN [result |-> "AttributeError", message |-> ""]
    ELSE LET q == is_version_installable(status, Versions[current.v].name)
         IN  IF q = "VersionNotFound"
             THEN [result |-> "VersionNotFound", message |-> ""]
             ELSE IF Falsy(q)
             THEN [result |-> "False", message |-> "You can't install the appliance version"]
             ELSE IF reply = "No"
             THEN [result |-> "False", message |-> "Would you like to install?"]
             ELSE [result |-> "True", message |-> "Would you like to install?"]

\* Next on the files page
NextFiles(reply) ==
    /\ page = "files"
    /\ ~UiBlocked
    /\ reply \in {"Yes", "No"}
    /\ LET r == ValidateFilesPage(reply)
       IN  /\ Outcome(r.result, r.message, NoFile, 0)
           /\ page' = IF r.result = "True" THEN "summary" ELSE page
    /\ UNCHANGED <<filesVars, envVars, probeVars, serverVars, histVars>>

\* Next on the summary page (validateCurrentPage returns True)
NextSummary ==
    /\ page = "summary"
    /\ ~UiBlocked
    /\ page' = "usage"
    /\ Outcome("True", "", NoFile, 0)
    /\ UNCHANGED <<filesVars, envVars, probeVars, serverVars, histVars>>

\* Finish on the usage page: validateCurrentPage returns _install(version["name"]);
\* outcome "True" (installed), "False" (Config or add_appliance failed) or
\* "None" (config.save failed)
NextUsage(outcome) ==
    /\ page = "usage"
    /\ ~UiBlocked
    /\ outcome \in {"True", "False", "None"}
    /\ IF current = NoItem
       THEN /\ Outcome("AttributeError", "", NoFile, 0)
            /\ UNCHANGED page
       ELSE /\ Outcome(outcome, IF outcome = "True" THEN "installed!" ELSE "", NoFile, current.v)
            /\ page' = IF outcome = "True" THEN "done" ELSE page
    /\ UNCHANGED <<filesVars, envVars, probeVars, serverVars, histVars>>

PreviousPage(p) ==
    CASE p = "server"  -> "info"
      [] p = "files"   -> "server"
      [] p = "summary" -> "files"
      [] p = "usage"   -> "summary"

\* the Back button: the page before is shown again, without initializePage
Back ==
    /\ page \in {"server", "files", "summary", "usage"}
    /\ ~UiBlocked
    /\ page' = PreviousPage(page)
    /\ Outcome("none", "", NoFile, 0)
    /\ UNCHANGED <<filesVars, envVars, probeVars, serverVars, histVars>>

----------------------------------------------------------------------------
(* Specifications *)

FsStates == {files \in SUBSET FileUniverse : WellFormedFs(files) /\ Cardinality(files) <= MaxFiles}

\* the state in __init__ before its call of _refreshVersions (line 56): the
\* appliance is loaded, no image has a status yet
InitFiles ==
    /\ status = [i \in ImageIds |-> "Unknown"]
    /\ tree = <<>>
    /\ current = NoItem
    /\ workers = <<>>
    /\ dialog = FALSE
    /\ lastResult = NoResult
    /\ lastMessage = ""
    /\ importPath = NoFile
    /\ installFor = 0
    /\ importedFor = 0
    /\ located = [i \in ImageIds |-> FALSE]
    /\ scanCompleted = FALSE
    /\ everCompleted = FALSE
    /\ fsChanged = FALSE
    /\ prevTree = <<>>
    /\ prevStable = FALSE
    /\ probe = "none"
    /\ answer = "none"

\* the widgets as setupUi leaves them; which radio button the form checks is
\* not fixed by the wizard's code
InitServerWidgets ==
    /\ radio \in {"remote", "vm", "local", "none"}
    /\ vmEnabled = TRUE
    /\ localEnabled = TRUE
    /\ comboIndex = 0
    /\ server = NoServer

\* the wizard on a Linux host without GNS3 VM (ServerSpec covers the server
\* page on every host)
Init ==
    /\ fs \in FsStates
    /\ InitFiles
    /\ page = "init"
    /\ platform = "linux"
    /\ vmRunning = FALSE
    /\ vmServer = FALSE
    /\ localRunning = TRUE
    /\ nRemotes = 0
    /\ InitServerWidgets
    /\ radio = "none"

Next ==
    \/ Construct
    \/ \E w \in 1..MaxWorkers : WorkerStep(w)
    \/ \E w \in 1..MaxWorkers, accepted \in BOOLEAN : RefreshReturn(w, accepted)
    \/ RefreshClicked
    \/ \E it \in TreeItems(tree) : SelectItem(it)
    \/ \E path \in fs \cup {NoFile}, copy_ok \in BOOLEAN : _importPushButtonClickedSlot(path, copy_ok)
    \/ \E f \in FileUniverse : FsAdd(f)
    \/ \E f \in fs : FsRemove(f)
    \/ NextInfo
    \/ NextServer
    \/ \E reply \in {"Yes", "No"} : NextFiles(reply)
    \/ NextSummary
    \/ \E outcome \in {"True", "False", "None"} : NextUsage(outcome)
    \/ Back

Spec == Init /\ [][Next]_vars

----------------------------------------------------------------------------
(* The server page on every platform, with every state of the GNS3 VM, the
   local server and the remote servers.  The wizard starts on the info page,
   the scan of __init__ having been closed before it ended. *)

InitServer ==
    /\ fs = {}
    /\ InitFiles
    /\ page = "info"
    /\ platform \in Platforms
    /\ vmRunning \in BOOLEAN
    /\ vmServer \in BOOLEAN
    /\ localRunning \in {TRUE, FALSE}
    /\ nRemotes \in 0..MaxRemotes
    /\ InitServerWidgets

NextOnServer ==
    \/ NextInfo
    \/ \E r \in {"remote", "vm", "local"} : ClickRadio(r)
    \/ \E k \in 1..MaxRemotes : SelectCombo(k)
    \/ \E running \in BOOLEAN, srv \in BOOLEAN : VMChanges(running, srv)
    \/ NextServer
    \/ \E w \in 1..MaxWorkers : WorkerStep(w)
    \/ \E w \in 1..MaxWorkers, accepted \in BOOLEAN : RefreshReturn(w, accepted)
    \/ Back

ServerSpec == InitServer /\ [][NextOnServer]_vars

----------------------------------------------------------------------------
(* The registry lookup applied on its own to every image description *)

RECURSIVE SubsetsUpTo(_, _)
SubsetsUpTo(S, n) ==
    IF n = 0 THEN {{}}
    ELSE LET smaller == SubsetsUpTo(S, n - 1)
         IN  smaller \cup {x \cup {f} : x \in smaller, f \in S}

RegistryUniverse ==
    {File(d, n, m, z) : d \in {StoreDir, ApplianceDir, DownloadDir, OtherDir},
                        n \in {"disk.qcow2", "cfg.img"},
                        m \in {"abc123", "bad000"},
                        z \in {1000, 999}}

Probes == [filename : {"disk.qcow2", "cfg.img"}, md5sum : {"abc123", "bad000"},
           filesize : {1000, 999}]

InitRegistry ==
    /\ fs \in {files \in SubsetsUpTo(RegistryUniverse, MaxRegistryFiles) : WellFormedFs(files)}
    /\ InitFiles
    /\ page = "init"
    /\ platform = "linux"
    /\ vmRunning = FALSE
    /\ vmServer = FALSE
    /\ localRunning = TRUE
    /\ nRemotes = 0
    /\ InitServerWidgets
    /\ radio = "none"

\* self._registry.search_image_file(image["filename"], image["md5sum"], image["filesize"])
Lookup(q) ==
    /\ probe' = q
    /\ answer' = IF search_image_file(fs, q.filename, q.md5sum, q.filesize)
                 THEN "True" ELSE "False"
    /\ UNCHANGED <<filesVars, wizardVars, envVars, serverVars, histVars>>

RegistrySpec == InitRegistry /\ [][\E q \in Probes : Lookup(q)]_vars

----------------------------------------------------------------------------
(* The installability query applied on its own to every name and status *)

AbsentNames == {"9.9", "", "1", "1.0.0"}

\* the statuses the images can carry: the worker writes them in ScanOrder, so
\* an image without status is followed by images without status
ReachableStatuses ==
    {st \in [ImageIds -> StatusValues] :
        \A k \in 1..(Len(ScanOrder) - 1) :
            st[ScanOrder[k]] = "Unknown" => st[ScanOrder[k + 1]] = "Unknown"}

InitQuery ==
    /\ fs = {}
    /\ InitFiles
    /\ page = "info"
    /\ platform = "linux"
    /\ vmRunning = FALSE
    /\ vmServer = FALSE
    /\ localRunning = TRUE
    /\ nRemotes = 0
    /\ InitServerWidgets
    /\ radio = "none"

\* self._appliance.is_version_installable(name), the images carrying statuses st
Query(st, name) ==
    /\ status' = st
    /\ probe' = name
    /\ answer' = is_version_installable(st, name)
    /\ UNCHANGED <<fs, tree, current, workers, dialog>>
    /\ UNCHANGED <<wizardVars, envVars, serverVars, histVars>>

NextQuery ==
    \E st \in ReachableStatuses, name \in VersionNames \cup AbsentNames :
        Query(st, name)

QuerySpec == InitQuery /\ [][NextQuery]_vars

----------------------------------------------------------------------------
(* Properties *)

ImagesOf(v) == Range(Versions[v].images)

Matches(f, filename, md5sum, filesize) ==
    f.name = filename /\ f.md5 = md5sum /\ f.size = filesize

\* the directories the wizard searches: the image store, the directory of the
\* appliance file and the download directory
SearchDirectories == {StoreDir, ApplianceDir, DownloadDir}

Findable(files, i) ==
    \E f \in files :
        /\ f.dir \in SearchDirectories
        /\ Matches(f, ImageDefs[i].filename, ImageDefs[i].md5sum, ImageDefs[i].filesize)

AllLocated(v) == \A i \in ImagesOf(v) : located[i]

\* C1: in the tree built by a reconciliation, the status shown for a version is
\* "Available" if and only if every image of the version has status
\* "Available", and "Missing files" otherwise; a version without images is
\* shown "Available".
C1_AggregateStatus ==
    \A k \in DOMAIN tree :
        tree[k].status =
            IF \A i \in ImagesOf(tree[k].version) : status[i] = "Available"
            THEN "Available"
            ELSE "Missing files"

C1_Witness ==
    /\ scanCompleted
    /\ Len(tree) = Len(Versions)
    /\ status[1] = "Missing file" /\ status[2] = "Available"
    /\ tree[1].status = "Missing files"
    /\ tree[2].status = "Available"
    /\ Versions[3].images = <<>> /\ tree[3].status = "Available"

\* C2: once the worker has completed, no image has an unknown status and every
\* image is "Available" exactly when the registry located it in that run and
\* "Missing file" otherwise; as long as the directories have not changed since
\* the run started, that is exactly when a matching file is in a search
\* directory now, whatever the status was before the run.
C2_StatusRecomputed ==
    scanCompleted =>
        \A i \in ImageIds :
            /\ status[i] \in {"Available", "Missing file"}
            /\ status[i] = "Available" <=> located[i]
            /\ ~fsChanged => (status[i] = "Available" <=> Findable(fs, i))

C2_Witness ==
    /\ scanCompleted
    /\ ~fsChanged
    /\ prevTree # <<>>
    /\ prevTree[1].children[1].image = 1
    /\ prevTree[1].children[1].status = "Available"
    /\ status[1] = "Missing file"
    /\ status[2] = "Available"

\* C3: when the wizard is past the files page (validateCurrentPage returned
\* True there), and whenever _install is entered, the most recent
\* reconciliation ran to completion and the registry located every image of
\* the selected version in it.
C3_InstallOnlyLocated ==
    /\ page \in {"summary", "usage", "done"} =>
           /\ current # NoItem
           /\ scanCompleted
           /\ AllLocated(current.v)
    /\ installFor # 0 =>
           /\ scanCompleted
           /\ AllLocated(installFor)

C3_Witness ==
    /\ installFor = 1
    /\ lastResult = [page |-> "usage", result |-> "True"]
    /\ page = "done"

\* C4: an import whose candidate file has a checksum other than the one
\* declared for the selected image starts no copy (the directories are
\* unchanged), starts no reconciliation and changes no image status, and the
\* rejection is shown; the filename and the size of the candidate do not matter.
C4_MismatchRejected ==
    [][\A path \in fs, copy_ok \in BOOLEAN :
           (/\ _importPushButtonClickedSlot(path, copy_ok)
            /\ path.md5 # ImageDefs[current.i].md5sum)
           => /\ UNCHANGED <<fs, status, tree, current, workers, dialog>>
              /\ lastMessage' = "This is not the correct image file."]_vars

C4_Witness ==
    /\ lastMessage = "This is not the correct image file."
    /\ current # NoItem /\ current.i # 0
    /\ importPath \in fs
    /\ importPath.name = ImageDefs[current.i].filename
    /\ importPath.size = ImageDefs[current.i].filesize
    /\ importPath.md5 # ImageDefs[current.i].md5sum
    /\ ~dialog

OneFieldChanged(p, q) ==
    \/ p.filename # q.filename /\ p.md5sum = q.md5sum /\ p.filesize = q.filesize
    \/ p.filename = q.filename /\ p.md5sum # q.md5sum /\ p.filesize = q.filesize
    \/ p.filename = q.filename /\ p.md5sum = q.md5sum /\ p.filesize # q.filesize

C6_Idempotent ==
    (scanCompleted /\ prevStable /\ ~fsChanged) =>
        /\ tree = prevTree
        /\ \A k \in DOMAIN prevTree : \A j \in DOMAIN prevTree[k].children :
               prevTree[k].children[j].status = status[prevTree[k].children[j].image]

C6_Witness ==
    /\ scanCompleted /\ prevStable /\ ~fsChanged
    /\ tree # <<>>
    /\ tree[1].status = "Missing files"
    /\ tree[2].status = "Available"

\* C7: validateCurrentPage on the files page reaches the installability query
\* only when a reconciliation has completed and every image has a status, and
\* the wizard is never past the files page with an image of the selected
\* version whose status is unknown.
C7_QueryAfterReconcile ==
    /\ (lastResult.page = "files" /\ lastResult.result # "AttributeError") =>
           /\ everCompleted
           /\ \A i \in ImageIds : status[i] # "Unknown"
    /\ page \in {"summary", "usage", "done"} =>
           /\ current # NoItem
           /\ \A i \in ImagesOf(current.v) : status[i] # "Unknown"

C7_Witness ==
    /\ ~everCompleted
    /\ page = "files"
    /\ ~dialog
    /\ \A i \in ImageIds : status[i] = "Unknown"
    /\ lastResult = [page |-> "files", result |-> "AttributeError"]

\* C8: for a name that is not the name of a version of the manifest the
\* installability query answers VersionNotFound, never true or false.
C8_VersionNotFound ==
    (answer # "none" /\ probe \notin VersionNames) => answer = "VersionNotFound"

C8_Witness ==
    /\ answer = "VersionNotFound"
    /\ probe = "9.9"
    /\ \A i \in ImageIds : status[i] = "Available"

C10_NoLocalServerOnMacWindows ==
    IsMacOrWindows(platform) => server # LocalServer

\* C11: validateCurrentPage on the server page returns False, stays on the
\* page and leaves the chosen server unchanged when the remote option is
\* checked with no remote server registered, or the GNS3 VM option is checked
\* with no VM server; whenever it returns True the chosen server is the one of
\* the checked option: the remote server selected in the combo box, the VM
\* server, otherwise the local server.
C11_ServerPageValidation ==
    [][NextServer =>
         /\ ((radio = "remote" /\ nRemotes = 0) \/ (radio = "vm" /\ ~vmServer)) =>
                /\ lastResult' = [page |-> "server", result |-> "False"]
                /\ lastMessage' # ""
                /\ server' = server
                /\ page' = "server"
         /\ lastResult'.result = "True" =>
                /\ radio = "remote" =>
                       /\ comboIndex \in 1..nRemotes
                       /\ server' = RemoteServer(comboIndex)
                /\ radio = "vm" => (vmServer /\ server' = VMServer)
                /\ radio \notin {"remote", "vm"} => server' = LocalServer
         /\ lastResult'.result \in {"True", "False"}]_vars

\* validateCurrentPage refused the remote option for want of a remote server and
\* kept the VM server chosen by an earlier visit of the page
C11_Witness ==
    /\ page = "server"
    /\ lastResult = [page |-> "server", result |-> "False"]
    /\ radio = "remote"
    /\ nRemotes = 0
    /\ server = VMServer

\* C12: after a successful import (the checksum of the picked file is the
\* selected image's and the copy succeeded) the copy is in the image store
\* under the image's declared filename, and the reconciliation that follows,
\* once it has completed over unchanged directories, has marked the selected
\* image Available.
C12_ImportedImageAvailable ==
    (importedFor # 0 /\ scanCompleted /\ ~fsChanged) =>
        /\ File(StoreDir, ImageDefs[importedFor].filename,
                importPath.md5, importPath.size) \in fs
        /\ status[importedFor] = "Available"

\* C12, amended: after a successful import the copy is in the image store
\* under the image's declared filename with the checksum of the image, and the
\* reconciliation that follows, once it has completed over unchanged
\* directories, has marked the selected image Available when the size of the
\* picked file is the image's declared filesize.
C12_ImportedImageAvailableWhenSizeMatches ==
    (importedFor # 0 /\ scanCompleted /\ ~fsChanged) =>
        /\ File(StoreDir, ImageDefs[importedFor].filename,
                importPath.md5, importPath.size) \in fs
        /\ importPath.md5 = ImageDefs[importedFor].md5sum
        /\ importPath.size = ImageDefs[importedFor].filesize =>
               status[importedFor] = "Available"

\* image 2 was imported from a file outside the search directories, and the
\* copy in the image store is the only file that matches it
C12_Witness ==
    /\ importedFor = 2
    /\ importPath = File(OtherDir, "cfg.img", "def456", 50)
    /\ scanCompleted
    /\ ~fsChanged
    /\ File(StoreDir, "cfg.img", "def456", 50) \in fs
    /\ File(ApplianceDir, "cfg.img", "def456", 50) \notin fs
    /\ status[2] = "Available"

====
